---- MODULE Spec2Model ----
(***************************************************************************)
(* A model of pavius/impi: the per-file import verifier (verifier.go and   *)
(* the scheme files) and the concurrent multi-file pipeline (impi.go).     *)
(***************************************************************************)
EXTENDS Integers, Sequences, FiniteSets, TLC

(***************************************************************************)
(* Bounds of the model.                                                    *)
(***************************************************************************)
\* most import specs of a declaration in the files of SpecVerify and SpecGroup
MaxRecords == 4
\* most import specs of a declaration in the files of SpecCount
MaxCountRecords == 5
\* longest path and longest local prefix of SpecClassify
MaxPathLen == 3
\* largest pool size (numWorkers) of a pipeline run
MaxWorkers == 2
\* most files discovery finds in a pipeline run
MaxFiles == 3
\* the top-level import declarations of a file, in the runs on whole files
MaxDecls == 3
\* the root path arguments of the command line
MaxRoots == 3
\* the violating files under one root path
MaxViolations == 2
\* the Verify calls made on one Impi
MaxCalls == 2

(***************************************************************************)
(* Strings are sequences of bytes; Go compares and sorts them byte-wise.   *)
(***************************************************************************)
Dot == <<46>>
PathC == <<67>>
PathA == <<97>>
PathB == <<98>>
PathLA == <<108, 46, 97>>
PathLAB == <<108, 46, 97, 98>>
PathLB == <<108, 46, 98>>
PrefixNone == <<>>
PrefixLA == <<108, 46, 97>>
PrefixLAB == <<108, 46, 97, 98>>
\* the file names "a.go", "b.go", "a_test.go" and "a.c"
FileAGo == <<97, 46, 103, 111>>
FileBGo == <<98, 46, 103, 111>>
FileATestGo == <<97, 95, 116, 101, 115, 116, 46, 103, 111>>
FileAC == <<97, 46, 99>>
\* the suffixes ".go" and "_test.go"
SuffixGo == <<46, 103, 111>>
SuffixTestGo == <<95, 116, 101, 115, 116, 46, 103, 111>>
\* the skip-path pattern "b", and "(", which is no regular expression
PatternB == <<98>>
PatternInvalid == <<40>>
\* the bytes of '.', 'a' and 'l'
PathBytes == {46, 97, 108}

\* strings.Contains(s, sub)
StringsContains(s, sub) ==
    \E i \in 0..(Len(s) - Len(sub)) : SubSeq(s, i + 1, i + Len(sub)) = sub

\* strings.HasPrefix(s, prefix)
StringsHasPrefix(s, prefix) ==
    /\ Len(prefix) <= Len(s)
    /\ SubSeq(s, 1, Len(prefix)) = prefix

\* strings.HasSuffix(s, suffix)
StringsHasSuffix(s, suffix) ==
    /\ Len(suffix) <= Len(s)
    /\ SubSeq(s, Len(s) - Len(suffix) + 1, Len(s)) = suffix

\* Go's s < t on strings: byte-wise lexicographic order
StringLess(s, t) ==
    \E k \in 1..Len(t) :
        /\ \A j \in 1..(k - 1) : j <= Len(s) /\ s[j] = t[j]
        /\ (k > Len(s) \/ s[k] < t[k])

\* sort.StringsAreSorted: no element is less than its predecessor
StringsAreSorted(xs) ==
    \A i \in 2..Len(xs) : ~StringLess(xs[i], xs[i - 1])

RECURSIVE InsertSorted(_, _)
InsertSorted(x, xs) ==
    IF xs = <<>> THEN <<x>>
    ELSE IF StringLess(x, Head(xs)) THEN <<x>> \o xs
    ELSE <<Head(xs)>> \o InsertSorted(x, Tail(xs))

\* sort.Sort(sort.StringSlice(xs)): the ascending arrangement of xs
RECURSIVE SortStrings(_)
SortStrings(xs) ==
    IF xs = <<>> THEN <<>>
    ELSE InsertSorted(Head(xs), SortStrings(Tail(xs)))

(***************************************************************************)
(* Enumerations of impi.go and verifier.go.                                *)
(***************************************************************************)
ImportGroupVerificationSchemeSingle == 0
ImportGroupVerificationSchemeStdNonStd == 1
ImportGroupVerificationSchemeStdLocalThirdParty == 2
ImportGroupVerificationSchemeStdThirdPartyLocal == 3

importTypeUnknown == 0
importTypeStd == 1
importTypeLocal == 2
importTypeThirdParty == 3
importTypeLocalOrThirdParty == 4

\* importTypeName[t] of the code is importTypeName[t + 1] here
importTypeName == <<"Unknown", "Std", "Local", "Third party", "Local or third party">>

(***************************************************************************)
(* The schemes.                                                            *)
(***************************************************************************)
stdLocalThirdPartyOrdersNoPair ==
    << <<importTypeStd>>,
       <<importTypeLocal>>,
       <<importTypeThirdParty>>,
       <<importTypeStd, importTypeLocal>>,
       <<importTypeStd, importTypeThirdParty>>,
       <<importTypeStd, importTypeLocal, importTypeThirdParty>> >>

stdLocalThirdPartyOrders ==
    << <<importTypeStd>>,
       <<importTypeLocal>>,
       <<importTypeThirdParty>>,
       <<importTypeStd, importTypeLocal>>,
       <<importTypeStd, importTypeThirdParty>>,
       <<importTypeLocal, importTypeThirdParty>>,
       <<importTypeStd, importTypeLocal, importTypeThirdParty>> >>

stdLocalThirdPartyMaxNumGroups == 3

stdLocalThirdPartyMixedGroupsAllowed == FALSE

\* the scheme std -> thirdParty -> local: its source file is not part of the
\* sources at hand; "identical subset rule with thirdParty and local swapped",
\* the empty ordering included
stdThirdPartyLocalOrders ==
    << <<>>,
       <<importTypeStd>>,
       <<importTypeThirdParty>>,
       <<importTypeLocal>>,
       <<importTypeStd, importTypeThirdParty>>,
       <<importTypeStd, importTypeLocal>>,
       <<importTypeThirdParty, importTypeLocal>>,
       <<importTypeStd, importTypeThirdParty, importTypeLocal>> >>

stdThirdPartyLocalMaxNumGroups == 3

stdThirdPartyLocalMixedGroupsAllowed == FALSE

NoScheme == [supported |-> FALSE, maxNumGroups |-> 0, mixedGroupsAllowed |-> FALSE,
             allowedImportOrders |-> <<>>]

\* verifier.getVerificationScheme
getVerificationScheme(scheme) ==
    IF scheme = ImportGroupVerificationSchemeStdLocalThirdParty
    THEN [supported |-> TRUE,
          maxNumGroups |-> stdLocalThirdPartyMaxNumGroups,
          mixedGroupsAllowed |-> stdLocalThirdPartyMixedGroupsAllowed,
          allowedImportOrders |-> stdLocalThirdPartyOrders]
    ELSE IF scheme = ImportGroupVerificationSchemeStdThirdPartyLocal
    THEN [supported |-> TRUE,
          maxNumGroups |-> stdThirdPartyLocalMaxNumGroups,
          mixedGroupsAllowed |-> stdThirdPartyLocalMixedGroupsAllowed,
          allowedImportOrders |-> stdThirdPartyLocalOrders]
    ELSE NoScheme

(***************************************************************************)
(* The verifier.                                                           *)
(***************************************************************************)
classifyImportTypePrefixSwapped(path, localPrefix) ==
    IF ~StringsContains(path, Dot) THEN importTypeStd
    ELSE IF Len(localPrefix) = 0 THEN importTypeLocalOrThirdParty
    ELSE IF StringsHasPrefix(localPrefix, path) THEN importTypeLocal
    ELSE importTypeThirdParty

\* verifier.classifyImportType, of the path and v.verifyOptions.LocalPrefix
classifyImportType(path, localPrefix) ==
    IF ~StringsContains(path, Dot) THEN importTypeStd
    ELSE IF Len(localPrefix) = 0 THEN importTypeLocalOrThirdParty
    ELSE IF StringsHasPrefix(path, localPrefix) THEN importTypeLocal
    ELSE importTypeThirdParty

\* The import specs of one declaration, as go/parser positions them. A spec of
\* the source text is [path, blank, doc]: blank says an empty line precedes it,
\* doc that a comment line stands directly above it (its ImportSpec.Doc).
\* cur is the last line used so far.
RECURSIVE parseImportSpecs(_, _, _)
parseImportSpecs(specs, cur, localPrefix) ==
    IF specs = <<>> THEN <<>>
    ELSE LET s == Head(specs)
             top == IF s.blank THEN cur + 2 ELSE cur + 1
             importLine == IF s.doc THEN top + 1 ELSE top
             info == [lineNumStart |-> top,
                      lineNumEnd |-> importLine,
                      lineNumImport |-> importLine,
                      path |-> s.path,
                      classifiedType |-> classifyImportType(s.path, localPrefix)]
         IN  <<info>> \o parseImportSpecs(Tail(specs), importLine, localPrefix)

\* the line of the last spec of a declaration that starts on line start
LastLineOf(infos, start) ==
    IF infos = <<>> THEN start ELSE infos[Len(infos)].lineNumEnd

\* verifier.parseImports: line 1 holds the package clause, a declaration
\* starts two lines after the end of what precedes it
RECURSIVE parseImportDecls(_, _, _)
parseImportDecls(decls, cur, localPrefix) ==
    IF decls = <<>> THEN <<>>
    ELSE LET start == cur + 2
             infos == parseImportSpecs(Head(decls), start, localPrefix)
             end == LastLineOf(infos, start) + 1
         IN  <<[lineNumStart |-> start, lineNumEnd |-> end, importInfos |-> infos]>>
             \o parseImportDecls(Tail(decls), end, localPrefix)

parseImports(file, localPrefix) == parseImportDecls(file.decls, 1, localPrefix)

RECURSIVE filterImportCAny(_)
filterImportCAny(importDecls) ==
    IF importDecls = <<>> THEN <<>>
    ELSE LET d == Head(importDecls)
             cImport == \E i \in 1..Len(d.importInfos) : d.importInfos[i].path = PathC
         IN  IF cImport THEN filterImportCAny(Tail(importDecls))
             ELSE <<d>> \o filterImportCAny(Tail(importDecls))

\* filterImportC: drop the declarations made of "C" alone
RECURSIVE filterImportC(_)
filterImportC(importDecls) ==
    IF importDecls = <<>> THEN <<>>
    ELSE LET d == Head(importDecls)
             cImport == \E i \in 1..Len(d.importInfos) : d.importInfos[i].path = PathC
             stdImport == \E i \in 1..Len(d.importInfos) : d.importInfos[i].path # PathC
         IN  IF cImport /\ ~stdImport THEN filterImportC(Tail(importDecls))
             ELSE <<d>> \o filterImportC(Tail(importDecls))

startsNewGroupByImportLine(lastLine, info) ==
    lastLine > 0 /\ info.lineNumImport # lastLine + 1

startsNewGroupAtFirst(lastLine, info) ==
    info.lineNumStart # lastLine + 1

\* the test of verifier.groupImports for starting a new group
startsNewGroup(lastLine, info) ==
    lastLine > 0 /\ info.lineNumStart # lastLine + 1

\* the loop of groupImports over the records of one declaration
RECURSIVE groupInfos(_, _, _, _)
groupInfos(infos, lastLine, group, groups) ==
    IF infos = <<>>
    THEN IF Len(group) > 0 THEN Append(groups, group) ELSE groups
    ELSE LET info == Head(infos)
         IN  IF startsNewGroup(lastLine, info)
             THEN groupInfos(Tail(infos), info.lineNumEnd, <<info>>, Append(groups, group))
             ELSE groupInfos(Tail(infos), info.lineNumEnd, Append(group, info), groups)

\* verifier.groupImports
RECURSIVE groupImports(_)
groupImports(importDecls) ==
    IF importDecls = <<>> THEN <<>>
    ELSE groupInfos(Head(importDecls).importInfos, 0, <<>>, <<>>)
         \o groupImports(Tail(importDecls))

\* the error values of verify; every error is a record of the one shape
NoError == [kind |-> "nil", n |-> 0, group |-> 0, first |-> <<>>, other |-> <<>>,
            names |-> <<>>, entries |-> <<>>]
ParseError == [NoError EXCEPT !.kind = "parse"]
MultipleError(n) == [NoError EXCEPT !.kind = "multiple", !.n = n]
SchemeError == [NoError EXCEPT !.kind = "scheme"]
CountError(n) == [NoError EXCEPT !.kind = "count", !.n = n]
MixedError(g, first, other) ==
    [NoError EXCEPT !.kind = "mixed", !.group = g, !.first = first, !.other = other]
OrderError(names) == [NoError EXCEPT !.kind = "order", !.names = names]
SortError(entries) == [NoError EXCEPT !.kind = "sort", !.entries = entries]

GroupPaths(group) == [i \in 1..Len(group) |-> group[i].path]

\* the first record of the group whose type differs from the group's first
FirstMismatch(group) ==
    LET bad == {i \in 1..Len(group) : group[i].classifiedType # group[1].classifiedType}
    IN  IF bad = {} THEN 0 ELSE CHOOSE i \in bad : \A j \in bad : i <= j

\* the error verifyNonMixedGroups returns for group g (1-based), which is mixed
mixedErrorOf(importInfoGroups, g) ==
    LET group == importInfoGroups[g]
    IN  MixedError(g - 1, group[1].path, group[FirstMismatch(group)].path)

\* verifier.verifyNonMixedGroups
verifyNonMixedGroups(importInfoGroups) ==
    LET mixed == {g \in 1..Len(importInfoGroups) : FirstMismatch(importInfoGroups[g]) # 0}
    IN  IF mixed = {} THEN NoError
        ELSE mixedErrorOf(importInfoGroups, CHOOSE g \in mixed : \A h \in mixed : g <= h)

\* reflect.DeepEqual(allowedImportOrder, existingImportOrder): the existing
\* order is a nil slice when there is no group, an allowed order never is
DeepEqual(allowedImportOrder, existingImportOrder) ==
    /\ Len(existingImportOrder) > 0
    /\ allowedImportOrder = existingImportOrder

\* verifier.verifyGroupOrder
verifyGroupOrder(importInfoGroups, allowedImportOrders) ==
    LET existingImportOrder ==
            [g \in 1..Len(importInfoGroups) |-> importInfoGroups[g][1].classifiedType]
    IN  IF \E k \in 1..Len(allowedImportOrders) :
               DeepEqual(allowedImportOrders[k], existingImportOrder)
        THEN NoError
        ELSE OrderError([g \in 1..Len(existingImportOrder) |->
                            importTypeName[existingImportOrder[g] + 1]])

RECURSIVE sortEntriesFirstOnly(_, _)
sortEntriesFirstOnly(importInfoGroups, g) ==
    IF g > Len(importInfoGroups) THEN <<>>
    ELSE LET importPaths == GroupPaths(importInfoGroups[g])
         IN  IF ~StringsAreSorted(importPaths)
             THEN <<[index |-> g - 1, got |-> importPaths,
                     expected |-> SortStrings(importPaths)]>>
             ELSE sortEntriesFirstOnly(importInfoGroups, g + 1)

\* the loop of verifyImportInfoGroupsOrder from group g (1-based) on: one
\* entry of the error string per group that is not sorted
RECURSIVE sortEntries(_, _)
sortEntries(importInfoGroups, g) ==
    IF g > Len(importInfoGroups) THEN <<>>
    ELSE LET importPaths == GroupPaths(importInfoGroups[g])
             rest == sortEntries(importInfoGroups, g + 1)
         IN  IF ~StringsAreSorted(importPaths)
             THEN <<[index |-> g - 1, got |-> importPaths,
                     expected |-> SortStrings(importPaths)]>> \o rest
             ELSE rest

\* verifier.verifyImportInfoGroupsOrder
verifyImportInfoGroupsOrder(importInfoGroups) ==
    LET entries == sortEntries(importInfoGroups, 1)
    IN  IF Len(entries) # 0 THEN SortError(entries) ELSE NoError

tooManyGroupsOffByOne(maxNumGroups, numGroups) == maxNumGroups <= numGroups

\* the test of verify for too many groups
tooManyGroups(maxNumGroups, numGroups) == maxNumGroups < numGroups

\* the checks of verify once the groups are known
verifyGroups(importInfoGroups, options) ==
    LET verificationScheme == getVerificationScheme(options.Scheme)
    IN  IF ~verificationScheme.supported THEN SchemeError
        ELSE IF tooManyGroups(verificationScheme.maxNumGroups, Len(importInfoGroups))
        THEN CountError(Len(importInfoGroups))
        ELSE LET mixedErr == verifyNonMixedGroups(importInfoGroups)
                 orderErr == verifyGroupOrder(importInfoGroups,
                                              verificationScheme.allowedImportOrders)
             IN  IF ~verificationScheme.mixedGroupsAllowed /\ mixedErr # NoError
                 THEN mixedErr
                 ELSE IF ~verificationScheme.mixedGroupsAllowed /\ orderErr # NoError
                 THEN orderErr
                 ELSE verifyImportInfoGroupsOrder(importInfoGroups)

\* where ioutil.ReadAll leaves the reader: at the end of the file
readAll(offset) == "end"

seekStartSkipped(offset) == offset

\* sourceFileReader.Seek(0, 0)
seekStart(offset) == "start"

\* where the reader stands when verify calls parseImports
readerAtParse(options) ==
    IF options.IgnoreGenerated THEN seekStart(readAll("start")) ELSE "start"

\* parser.ParseFile succeeds: the file is Go source and is read from its
\* start (what is left of a file read to its end has no package clause)
parserParses(file, offset) == file.parses /\ offset = "start"

nothingToVerifyNever(importDecls) == FALSE

\* the test of verify for a file with nothing to verify
nothingToVerify(importDecls) == Len(importDecls) = 0

multipleDeclarationsOverTwo(importDecls) == Len(importDecls) > 2

\* the test of verify for multiple import declarations
multipleDeclarations(importDecls) == Len(importDecls) > 1

\* verifier.verify as [decls, groups, err]: the declarations left after
\* filterImportC, the groups (when it gets to group) and the error returned
verify(file, options) ==
    IF options.IgnoreGenerated /\ file.generated
    THEN [decls |-> <<>>, groups |-> <<>>, grouped |-> FALSE, err |-> NoError]
    ELSE IF ~parserParses(file, readerAtParse(options))
    THEN [decls |-> <<>>, groups |-> <<>>, grouped |-> FALSE, err |-> ParseError]
    ELSE LET importDecls == filterImportC(parseImports(file, options.LocalPrefix))
         IN  IF nothingToVerify(importDecls)
             THEN [decls |-> importDecls, groups |-> <<>>, grouped |-> FALSE,
                   err |-> NoError]
             ELSE IF multipleDeclarations(importDecls)
             THEN [decls |-> importDecls, groups |-> <<>>, grouped |-> FALSE,
                   err |-> MultipleError(Len(importDecls))]
             ELSE LET importInfoGroups == groupImports(importDecls)
                  IN  [decls |-> importDecls, groups |-> importInfoGroups,
                       grouped |-> TRUE,
                       err |-> verifyGroups(importInfoGroups, options)]

(***************************************************************************)
(* State.                                                                  *)
(***************************************************************************)
VARIABLES
    vPc,        \* "idle": no verifier run; "ready": before verify; "done": after
    vFile,      \* the source file handed to verify
    vOptions,   \* the VerifyOptions handed to verify
    vDecls,     \* importDecls after filterImportC
    vGroups,    \* importInfoGroups
    vGrouped,   \* whether verify got to groupImports
    vErr,       \* the error verify returned
    numWorkers,        \* Impi.numWorkers
    files,             \* the files discovery has found so far, in order: the kind of each
    verifyPc,          \* Impi.Verify: "off", "start", "wait", "returned"
    verifyResult,      \* what Verify returned: [kind, n]
    filePathsCh,       \* the paths buffered in filePathsCh (indexes of files)
    filePathsChClosed,
    resultsChClosed,   \* resultsCh is unbuffered: a send is a hand-over
    numErrors,
    aggPc,             \* the results goroutine: "idle", "recv", "report", "done"
    aggRes,            \* the result it is reporting
    discPc,            \* the paths goroutine: "idle", "run", "send", "exit", "done"
    discErr,           \* the error populatePathsChan returned
    cwPc,              \* the createWorkers goroutine: "idle", "wait", "exit", "done"
    cwErr,             \* the error createWorkers returned
    innerErr,          \* the error of the errgroup of createWorkers
    wPc,               \* each worker: "idle", "recv", "work", "send", "done"
    wFile,             \* the file a worker holds
    outerErr,          \* the error of the errgroup of Verify
    ctxCancelled,      \* whether ctx is cancelled
    opened,            \* per file, the os.Open calls made for it
    verified,          \* per file, the verifier.verify calls made for it
    reported,          \* per file, the Report calls made for it
    wVerifier,         \* each worker's verifier: its verifyOptions field
    content,           \* per file, the content os.Open gave the worker
    fileErr,           \* per file, the error verifier.verify returned for it
    filePaths,         \* per file, its path
    verifyOptions,     \* Impi.verifyOptions: the options of the Verify call
    SkipPathRegexes,   \* Impi.SkipPathRegexes
    tree,              \* the file names found under the root path of the call
    calls,             \* the Verify calls made on the Impi
    cliPc,             \* cmd/impi: "off", "setup", "loop", "exit"
    schemeFlag,        \* the -scheme flag
    ignorePattern,     \* the -ignore flag
    rootPaths,         \* per root path argument, what is under it
    argIndex,          \* the root path the loop of run is at (0-based)
    printed,           \* per root path, the "path: message" lines printed
    exitCode           \* the exit code of the process

vvars == <<vPc, vFile, vOptions, vDecls, vGroups, vGrouped, vErr>>

pvars == <<numWorkers, files, verifyPc, verifyResult, filePathsCh,
           filePathsChClosed, resultsChClosed, numErrors, aggPc, aggRes, discPc,
           discErr, cwPc, cwErr, innerErr, wPc, wFile, outerErr,
           ctxCancelled, opened, verified, reported, wVerifier, content, fileErr,
           filePaths, verifyOptions, SkipPathRegexes, tree, calls>>

\* the verifier instances and what they read and returned
cvars == <<wVerifier, content, fileErr, filePaths>>

\* the Impi instance and the arguments of the call
ivars == <<verifyOptions, SkipPathRegexes, tree, calls>>

\* the command
mvars == <<cliPc, schemeFlag, ignorePattern, rootPaths, argIndex, printed, exitCode>>

vars == <<vvars, pvars, mvars>>

NoFile == [decls |-> <<>>, parses |-> TRUE, generated |-> FALSE]
NoOptions == [Scheme |-> ImportGroupVerificationSchemeSingle, LocalPrefix |-> <<>>,
              IgnoreGenerated |-> FALSE]

(***************************************************************************)
(* The pipeline of Impi.Verify.                                            *)
(***************************************************************************)
Workers == 1..MaxWorkers

\* a discovered file is filtered out ("skip") or passes the filters ("found");
\* the worker that takes it cannot open it ("noopen"), or opens it and
\* verifier.verify returns nil ("pass") or an error ("fail")
FileKinds == {"skip", "found", "pass", "fail", "noopen"}

NoResult == [kind |-> "none", n |-> 0]

PipelineOff ==
    /\ numWorkers = 0
    /\ files = <<>>
    /\ verifyPc = "off"
    /\ verifyResult = NoResult
    /\ filePathsCh = <<>>
    /\ filePathsChClosed = FALSE
    /\ resultsChClosed = FALSE
    /\ numErrors = 0
    /\ aggPc = "idle"
    /\ aggRes = 0
    /\ discPc = "idle"
    /\ discErr = "nil"
    /\ cwPc = "idle"
    /\ cwErr = "nil"
    /\ innerErr = "nil"
    /\ wPc = [w \in Workers |-> "idle"]
    /\ wFile = [w \in Workers |-> 0]
    /\ outerErr = "nil"
    /\ ctxCancelled = FALSE
    /\ opened = <<>>
    /\ verified = <<>>
    /\ reported = <<>>
    /\ wVerifier = [w \in Workers |-> NoOptions]
    /\ content = <<>>
    /\ fileErr = <<>>
    /\ filePaths = <<>>
    /\ verifyOptions = NoOptions
    /\ SkipPathRegexes = <<>>
    /\ tree = {}
    /\ calls = 0

VerifierOff ==
    /\ vPc = "idle"
    /\ vFile = NoFile
    /\ vOptions = NoOptions
    /\ vDecls = <<>>
    /\ vGroups = <<>>
    /\ vGrouped = FALSE
    /\ vErr = NoError

CliOff ==
    /\ cliPc = "off"
    /\ schemeFlag = ""
    /\ ignorePattern = <<>>
    /\ rootPaths = <<>>
    /\ argIndex = 0
    /\ printed = <<>>
    /\ exitCode = 0

\* the options of a call: the built-in scheme std -> local -> thirdParty with
\* the local prefix "l.a", no skip path, no ignore pattern
PipelineOptions ==
    [Scheme |-> ImportGroupVerificationSchemeStdLocalThirdParty,
     LocalPrefix |-> PrefixLA, IgnoreGenerated |-> FALSE,
     SkipTests |-> FALSE, SkipPaths |-> <<>>, IgnorePattern |-> <<>>]

\* NewImpi(numWorkers) for some numWorkers of workerSet, and the first call of
\* Verify, with some options of optionsSet on a root path that holds fileSet
ImpiInit(workerSet, optionsSet, fileSet) ==
    /\ VerifierOff
    /\ CliOff
    /\ numWorkers \in workerSet
    /\ verifyOptions \in optionsSet
    /\ tree = fileSet
    /\ SkipPathRegexes = <<>>
    /\ calls = 1
    /\ files = <<>>
    /\ verifyPc = "start"
    /\ verifyResult = NoResult
    /\ filePathsCh = <<>>
    /\ filePathsChClosed = FALSE
    /\ resultsChClosed = FALSE
    /\ numErrors = 0
    /\ aggPc = "idle"
    /\ aggRes = 0
    /\ discPc = "idle"
    /\ discErr = "nil"
    /\ cwPc = "idle"
    /\ cwErr = "nil"
    /\ innerErr = "nil"
    /\ wPc = [w \in Workers |-> "idle"]
    /\ wFile = [w \in Workers |-> 0]
    /\ outerErr = "nil"
    /\ ctxCancelled = FALSE
    /\ opened = <<>>
    /\ verified = <<>>
    /\ reported = <<>>
    /\ wVerifier = [w \in Workers |-> NoOptions]
    /\ content = <<>>
    /\ fileErr = <<>>
    /\ filePaths = <<>>

\* a call with the options of PipelineOptions or with a skip path that does
\* not compile, on a root path with a Go file and a file that is not one
PipelineInit ==
    ImpiInit(0..MaxWorkers,
             {PipelineOptions, [PipelineOptions EXCEPT !.SkipPaths = <<PatternInvalid>>]},
             {FileAGo, FileAC})

\* a source file of one import declaration with the given paths, one per
\* line, blanks saying which of them an empty line precedes
FileOf(paths, blanks) ==
    [decls |-> << [i \in 1..Len(paths) |->
                      [path |-> paths[i], blank |-> blanks[i], doc |-> FALSE]] >>,
     parses |-> TRUE, generated |-> FALSE]

\* what a file of a run may contain: "grouped", a standard group then a local
\* one, which verifies, or "mixed", a standard and a local import in one group
PipelineFiles == {"grouped", "mixed"}

FileContent(name) ==
    IF name = "grouped" THEN FileOf(<<PathA, PathLA>>, <<FALSE, TRUE>>)
    ELSE IF name = "mixed" THEN FileOf(<<PathA, PathLA>>, <<FALSE, FALSE>>)
    ELSE NoFile

verifierOptionsStale(v, options) == v

\* v.verifyOptions = verifyOptions: the options verify works with, v being
\* the field's value before the call
verifierOptions(v, options) == options

\* the error verifier.verify returns on the verifier whose field holds v
verifierVerify(v, file, options) ==
    verify(file, verifierOptions(v, options)).err

\* what verifier.verify reads of the options
VerifierView(options) ==
    [Scheme |-> options.Scheme, LocalPrefix |-> options.LocalPrefix,
     IgnoreGenerated |-> options.IgnoreGenerated]

\* the views of the options of the runs of the pipeline, and of no options
VerifierViews ==
    [Scheme : {ImportGroupVerificationSchemeSingle,
               ImportGroupVerificationSchemeStdLocalThirdParty},
     LocalPrefix : {PrefixNone, PrefixLA},
     IgnoreGenerated : {FALSE}]

\* verifierVerify of every file of a run, on a fresh and on a used verifier
workerVerifies ==
    [v \in VerifierViews, c \in PipelineFiles, o \in VerifierViews |->
        verifierVerify(v, FileContent(c), o)]

\* regexp.Compile(skipPath) succeeds: the patterns at hand are literal text,
\* which compiles, and "(", which does not
regexpCompiles(skipPath) == skipPath # PatternInvalid

\* skipPathRegex.Match([]byte(filePath)), of a pattern of literal text
regexpMatch(skipPathRegex, filePath) == StringsContains(filePath, skipPathRegex)

\* the loop of Verify over verifyOptions.SkipPaths: the patterns compiled
\* before the first that fails are appended to i.SkipPathRegexes
RECURSIVE compileSkipPaths(_, _)
compileSkipPaths(skipPaths, regexes) ==
    IF skipPaths = <<>> THEN [regexes |-> regexes, ok |-> TRUE]
    ELSE IF ~regexpCompiles(Head(skipPaths)) THEN [regexes |-> regexes, ok |-> FALSE]
    ELSE compileSkipPaths(Tail(skipPaths), Append(regexes, Head(skipPaths)))

\* the filters of addFilePathToFilePathsChan: whether filePath gets to the
\* select that sends it
passesFilters(filePath, options, regexes) ==
    /\ StringsHasSuffix(filePath, SuffixGo)
    /\ ~(StringsHasSuffix(filePath, SuffixTestGo) /\ options.SkipTests)
    /\ \A k \in 1..Len(regexes) : ~regexpMatch(regexes[k], filePath)

\* errgroup: the error a group keeps when a goroutine returns new (the first)
firstError(current, new) == IF current = "nil" THEN new ELSE current

sendsResultAlways(kind) == TRUE

\* a worker sends a VerificationError iff verifier.verify returned an error
sendsResult(kind) == kind = "fail"

ctxDoneNever == FALSE

\* <-ctx.Done() is ready
ctxDone == ctxCancelled

verifyReturnsCountOnError(err, n) ==
    IF n # 0 THEN [kind |-> "found", n |-> n]
    ELSE IF err # "nil" THEN [kind |-> err, n |-> 0]
    ELSE [kind |-> "nil", n |-> 0]

\* what Verify returns after g.Wait() returned err with numErrors = n
verifyReturns(err, n) ==
    IF err # "nil" THEN [kind |-> err, n |-> 0]
    ELSE IF n # 0 THEN [kind |-> "found", n |-> n]
    ELSE [kind |-> "nil", n |-> 0]

\* Verify returns the compile error with the goroutines already started
VerifyCompileFailsAfterStart ==
    /\ verifyPc = "wait"
    /\ verifyPc' = "returned"
    /\ verifyResult' = [kind |-> "compile", n |-> 0]
    /\ UNCHANGED <<numWorkers, files, filePathsCh, filePathsChClosed,
                   resultsChClosed, numErrors, aggPc, aggRes, discPc, discErr,
                   cwPc, cwErr, innerErr, wPc, wFile, outerErr, ctxCancelled, opened,
                   verified, reported, vvars, mvars, cvars, ivars>>

\* Verify: a skip path does not compile
VerifyCompileFails ==
    /\ verifyPc = "start"
    /\ LET compiled == compileSkipPaths(verifyOptions.SkipPaths, SkipPathRegexes)
       IN  /\ ~compiled.ok
           /\ SkipPathRegexes' = compiled.regexes
    /\ UNCHANGED <<verifyOptions, tree, calls>>
    /\ verifyPc' = "returned"
    /\ verifyResult' = [kind |-> "compile", n |-> 0]
    /\ UNCHANGED <<numWorkers, files, filePathsCh, filePathsChClosed,
                   resultsChClosed, numErrors, aggPc, aggRes, discPc, discErr,
                   cwPc, cwErr, innerErr, wPc, wFile, outerErr, ctxCancelled, opened,
                   verified, reported, vvars, mvars, cvars>>

\* Verify: the channels are made and the goroutines started
VerifyStart ==
    /\ verifyPc = "start"
    /\ LET compiled == compileSkipPaths(verifyOptions.SkipPaths, SkipPathRegexes)
       IN  /\ compiled.ok
           /\ SkipPathRegexes' = compiled.regexes
    /\ UNCHANGED <<verifyOptions, tree, calls>>
    /\ verifyPc' = "wait"
    /\ aggPc' = "recv"
    /\ discPc' = "run"
    /\ cwPc' = "wait"
    /\ wPc' = [w \in Workers |-> IF w <= numWorkers THEN "recv" ELSE "idle"]
    /\ UNCHANGED <<numWorkers, files, verifyResult, filePathsCh,
                   filePathsChClosed, resultsChClosed, numErrors, aggRes,
                   discErr, cwErr, innerErr, wFile, outerErr, ctxCancelled, opened,
                   verified, reported, vvars, mvars, cvars>>

\* populatePathsChan returns err and the deferred close(filePathsCh) runs
DiscoveryReturn(err) ==
    /\ discErr' = err
    /\ filePathsChClosed' = TRUE
    /\ discPc' = "exit"
    /\ UNCHANGED <<numWorkers, files, verifyPc, verifyResult,
                   filePathsCh, resultsChClosed, numErrors, aggPc, aggRes,
                   cwPc, cwErr, innerErr, wPc, wFile, outerErr, ctxCancelled, opened,
                   verified, reported, vvars, mvars, cvars, ivars>>

\* populatePathsChan comes to one more file, which the filters of
\* addFilePathToFilePathsChan make of the given kind
DiscoveryFinds(kind) ==
    /\ discPc = "run"
    /\ Len(files) < MaxFiles
    /\ \E filePath \in tree :
           /\ kind = (IF passesFilters(filePath, verifyOptions, SkipPathRegexes)
                      THEN "found" ELSE "skip")
           /\ filePaths' = Append(filePaths, filePath)
    /\ files' = Append(files, kind)
    /\ opened' = Append(opened, 0)
    /\ verified' = Append(verified, 0)
    /\ reported' = Append(reported, 0)
    /\ content' = Append(content, "")
    /\ fileErr' = Append(fileErr, NoError)
    /\ UNCHANGED wVerifier

\* addFilePathToFilePathsChan: the file does not pass the filters
DiscoverySkip ==
    /\ DiscoveryFinds("skip")
    /\ UNCHANGED <<numWorkers, verifyPc, verifyResult,
                   filePathsCh, filePathsChClosed, resultsChClosed, numErrors, aggPc,
                   aggRes, discPc, discErr, cwPc, cwErr, innerErr, wPc, wFile,
                   outerErr, ctxCancelled, vvars, mvars, ivars>>

\* addFilePathToFilePathsChan: the file passes the filters, the select is next
DiscoveryFilterPasses ==
    /\ DiscoveryFinds("found")
    /\ discPc' = "send"
    /\ UNCHANGED <<numWorkers, verifyPc, verifyResult,
                   filePathsCh, filePathsChClosed, resultsChClosed, numErrors, aggPc,
                   aggRes, discErr, cwPc, cwErr, innerErr, wPc, wFile,
                   outerErr, ctxCancelled, vvars, mvars, ivars>>

filePathsChCapacityPlusOne == numWorkers + 1

\* filePathsCh := make(chan string, i.numWorkers)
filePathsChCapacity == numWorkers

\* addFilePathToFilePathsChan: the select takes filePathsCh <- filePath
DiscoverySend ==
    /\ discPc = "send"
    /\ Len(filePathsCh) < filePathsChCapacity
    /\ filePathsCh' = Append(filePathsCh, Len(files))
    /\ discPc' = "run"
    /\ UNCHANGED <<numWorkers, files, verifyPc, verifyResult,
                   filePathsChClosed, resultsChClosed, numErrors, aggPc, aggRes,
                   discErr, cwPc, cwErr, innerErr, wPc, wFile, outerErr,
                   ctxCancelled, opened, verified, reported, vvars, mvars, cvars, ivars>>

\* addFilePathToFilePathsChan: the select takes <-ctx.Done()
DiscoveryCancelled ==
    /\ discPc = "send"
    /\ ctxDone
    /\ DiscoveryReturn("ctx")

\* populatePathsChan: no package is found, or a directory cannot be read
DiscoveryFails ==
    /\ discPc = "run"
    /\ DiscoveryReturn("disc")

\* populatePathsChan: every path was looked at
DiscoveryEnds ==
    /\ discPc = "run"
    /\ DiscoveryReturn("nil")

\* the errgroup of Verify takes the error the paths goroutine returned
DiscoveryExit ==
    /\ discPc = "exit"
    /\ discPc' = "done"
    /\ outerErr' = firstError(outerErr, discErr)
    /\ ctxCancelled' = (ctxCancelled \/ discErr # "nil")
    /\ UNCHANGED <<numWorkers, files, verifyPc, verifyResult,
                   filePathsCh, filePathsChClosed, resultsChClosed, numErrors, aggPc,
                   aggRes, discErr, cwPc, cwErr, innerErr, wPc, wFile,
                   opened, verified, reported, vvars, mvars, cvars, ivars>>

\* a worker: for filePath := range filePathsCh receives a path
WorkerReceive(w) ==
    /\ wPc[w] = "recv"
    /\ Len(filePathsCh) > 0
    /\ wFile' = [wFile EXCEPT ![w] = Head(filePathsCh)]
    /\ filePathsCh' = Tail(filePathsCh)
    /\ wPc' = [wPc EXCEPT ![w] = "work"]
    /\ UNCHANGED <<numWorkers, files, verifyPc, verifyResult,
                   filePathsChClosed, resultsChClosed, numErrors, aggPc, aggRes,
                   discPc, discErr, cwPc, cwErr, innerErr, outerErr,
                   ctxCancelled, opened, verified, reported, vvars, mvars, cvars, ivars>>

\* a worker: filePathsCh is closed and empty, the worker returns nil
WorkerFinish(w) ==
    /\ wPc[w] = "recv"
    /\ Len(filePathsCh) = 0
    /\ filePathsChClosed
    /\ wPc' = [wPc EXCEPT ![w] = "done"]
    /\ UNCHANGED <<numWorkers, files, verifyPc, verifyResult,
                   filePathsCh, filePathsChClosed, resultsChClosed, numErrors, aggPc,
                   aggRes, discPc, discErr, cwPc, cwErr, innerErr, wFile,
                   outerErr, ctxCancelled, opened, verified, reported, vvars, mvars, cvars, ivars>>

\* a worker: os.Open fails, the worker returns the error to its errgroup
WorkerOpenFails(w) ==
    /\ wPc[w] = "work"
    /\ files[wFile[w]] \in {"found", "noopen"}
    /\ files' = [files EXCEPT ![wFile[w]] = "noopen"]
    /\ opened' = [opened EXCEPT ![wFile[w]] = @ + 1]
    /\ innerErr' = firstError(innerErr, "open")
    /\ wPc' = [wPc EXCEPT ![w] = "done"]
    /\ UNCHANGED <<numWorkers, verifyPc, verifyResult,
                   filePathsCh, filePathsChClosed, resultsChClosed, numErrors, aggPc,
                   aggRes, discPc, discErr, cwPc, cwErr, wFile, outerErr,
                   ctxCancelled, verified, reported, vvars, mvars, cvars, ivars>>

\* a worker: the file opens with some content and verifier.verify runs on
\* it; a file verified again has the outcome it had
WorkerVerify(w) ==
    /\ wPc[w] = "work"
    /\ \E c \in PipelineFiles :
           LET err == workerVerifies[wVerifier[w], c, VerifierView(verifyOptions)]
               kind == IF err = NoError THEN "pass" ELSE "fail"
           IN  /\ files[wFile[w]] \in {"found", kind}
               /\ files' = [files EXCEPT ![wFile[w]] = kind]
               /\ content' = [content EXCEPT ![wFile[w]] = c]
               /\ fileErr' = [fileErr EXCEPT ![wFile[w]] = err]
               /\ wPc' = [wPc EXCEPT ![w] = IF sendsResult(kind) THEN "send" ELSE "recv"]
    /\ wVerifier' = [wVerifier EXCEPT ![w] = VerifierView(verifyOptions)]
    /\ UNCHANGED filePaths
    /\ opened' = [opened EXCEPT ![wFile[w]] = @ + 1]
    /\ verified' = [verified EXCEPT ![wFile[w]] = @ + 1]
    /\ UNCHANGED <<numWorkers, verifyPc, verifyResult,
                   filePathsCh, filePathsChClosed, resultsChClosed, numErrors, aggPc,
                   aggRes, discPc, discErr, cwPc, cwErr, innerErr, wFile,
                   outerErr, ctxCancelled, reported, vvars, mvars, ivars>>

\* a worker: resultsCh <- VerificationError, taken by the results goroutine
WorkerSendResult(w) ==
    /\ wPc[w] = "send"
    /\ aggPc = "recv"
    /\ ~resultsChClosed
    /\ aggRes' = wFile[w]
    /\ aggPc' = "report"
    /\ wPc' = [wPc EXCEPT ![w] = "recv"]
    /\ UNCHANGED <<numWorkers, files, verifyPc, verifyResult,
                   filePathsCh, filePathsChClosed, resultsChClosed, numErrors, discPc,
                   discErr, cwPc, cwErr, innerErr, wFile, outerErr,
                   ctxCancelled, opened, verified, reported, vvars, mvars, cvars, ivars>>

\* the results goroutine: errorReporter.Report(res); numErrors++
AggregatorReport ==
    /\ aggPc = "report"
    /\ reported' = [reported EXCEPT ![aggRes] = @ + 1]
    /\ numErrors' = numErrors + 1
    /\ aggPc' = "recv"
    /\ UNCHANGED <<numWorkers, files, verifyPc, verifyResult,
                   filePathsCh, filePathsChClosed, resultsChClosed, aggRes, discPc,
                   discErr, cwPc, cwErr, innerErr, wPc, wFile, outerErr,
                   ctxCancelled, opened, verified, vvars, mvars, cvars, ivars>>

\* the results goroutine: resultsCh is closed, the goroutine returns nil
AggregatorFinish ==
    /\ aggPc = "recv"
    /\ resultsChClosed
    /\ aggPc' = "done"
    /\ UNCHANGED <<numWorkers, files, verifyPc, verifyResult,
                   filePathsCh, filePathsChClosed, resultsChClosed, numErrors, aggRes,
                   discPc, discErr, cwPc, cwErr, innerErr, wPc, wFile,
                   outerErr, ctxCancelled, opened, verified, reported, vvars, mvars, cvars, ivars>>

workersReturnedSome == \E w \in Workers : w <= numWorkers /\ wPc[w] = "done"

\* createWorkers: g.Wait() of the workers' errgroup is over
workersReturned == \A w \in Workers : w <= numWorkers => wPc[w] = "done"

\* createWorkers: g.Wait() returns once every worker has returned, and the
\* deferred close(resultsCh) runs
CreateWorkersReturn ==
    /\ cwPc = "wait"
    /\ workersReturned
    /\ cwErr' = innerErr
    /\ resultsChClosed' = TRUE
    /\ cwPc' = "exit"
    /\ UNCHANGED <<numWorkers, files, verifyPc, verifyResult,
                   filePathsCh, filePathsChClosed, numErrors, aggPc, aggRes, discPc,
                   discErr, innerErr, wPc, wFile, outerErr, ctxCancelled,
                   opened, verified, reported, vvars, mvars, cvars, ivars>>

\* the errgroup of Verify takes the error the workers goroutine returned
CreateWorkersExit ==
    /\ cwPc = "exit"
    /\ cwPc' = "done"
    /\ outerErr' = firstError(outerErr, cwErr)
    /\ ctxCancelled' = (ctxCancelled \/ cwErr # "nil")
    /\ UNCHANGED <<numWorkers, files, verifyPc, verifyResult,
                   filePathsCh, filePathsChClosed, resultsChClosed, numErrors, aggPc,
                   aggRes, discPc, discErr, cwErr, innerErr, wPc, wFile,
                   opened, verified, reported, vvars, mvars, cvars, ivars>>

\* Verify: g.Wait() returns once the three goroutines have returned
VerifyReturn ==
    /\ verifyPc = "wait"
    /\ aggPc = "done" /\ discPc = "done" /\ cwPc = "done"
    /\ verifyPc' = "returned"
    /\ ctxCancelled' = TRUE
    /\ verifyResult' = verifyReturns(outerErr, numErrors)
    /\ UNCHANGED <<numWorkers, files, filePathsCh, filePathsChClosed,
                   resultsChClosed, numErrors, aggPc, aggRes, discPc, discErr,
                   cwPc, cwErr, innerErr, wPc, wFile, outerErr, opened, verified,
                   reported, vvars, mvars, cvars, ivars>>

Next ==
    \/ VerifyCompileFails
    \/ VerifyStart
    \/ DiscoverySkip
    \/ DiscoveryFilterPasses
    \/ DiscoverySend
    \/ DiscoveryCancelled
    \/ DiscoveryFails
    \/ DiscoveryEnds
    \/ DiscoveryExit
    \/ \E w \in Workers : WorkerReceive(w)
    \/ \E w \in Workers : WorkerFinish(w)
    \/ \E w \in Workers : WorkerOpenFails(w)
    \/ \E w \in Workers : WorkerVerify(w)
    \/ \E w \in Workers : WorkerSendResult(w)
    \/ AggregatorReport
    \/ AggregatorFinish
    \/ CreateWorkersReturn
    \/ CreateWorkersExit
    \/ VerifyReturn

Spec == PipelineInit /\ [][Next]_vars

\* the Go scheduler runs every goroutine that can take a step
FairSpec == Spec /\ WF_vars(Next)

\* SpecScheme: one worker; the scheme of the call is a built-in one or the
\* zero value, which has no scheme
SpecSchemeInit ==
    ImpiInit({1},
             {[PipelineOptions EXCEPT !.Scheme = scheme] :
                 scheme \in {ImportGroupVerificationSchemeSingle,
                             ImportGroupVerificationSchemeStdLocalThirdParty}}
             \cup {[PipelineOptions EXCEPT !.SkipPaths = <<PatternInvalid>>]},
             {FileAGo, FileAC})

SpecScheme == SpecSchemeInit /\ [][Next]_vars

\* SpecFilter: one worker; calls with and without the skip-tests flag, a skip
\* path and an ignore pattern, on a root path with Go files, a test file and a
\* file that is not Go
SpecFilterInit ==
    ImpiInit({1},
             [Scheme : {ImportGroupVerificationSchemeStdLocalThirdParty},
              LocalPrefix : {PrefixLA}, IgnoreGenerated : {FALSE},
              SkipTests : BOOLEAN,
              SkipPaths : {<<PatternB>>},
              IgnorePattern : {<<>>, FileAGo}]
             \cup {[PipelineOptions EXCEPT !.SkipPaths = <<PatternB, PatternInvalid>>]},
             {FileAGo, FileBGo, FileATestGo, FileAC})

SpecFilter == SpecFilterInit /\ [][Next]_vars

(***************************************************************************)
(* Several Verify calls on one Impi.                                       *)
(***************************************************************************)
\* the options of the calls: no skip path, one that matches "b.go", one
\* that does not compile
CallOptions ==
    {[PipelineOptions EXCEPT !.SkipPaths = skipPaths] :
        skipPaths \in {<<>>, <<PatternB>>, <<PatternInvalid>>}}

\* Verify is called again on the Impi once the call before has returned:
\* i.verifyOptions is assigned, the channels and the counter are new, and
\* numWorkers and SkipPathRegexes are the fields the Impi already has
VerifyAgain ==
    /\ verifyPc = "returned"
    /\ calls < MaxCalls
    /\ calls' = calls + 1
    /\ verifyOptions' \in CallOptions
    /\ verifyPc' = "start"
    /\ verifyResult' = NoResult
    /\ files' = <<>>
    /\ filePathsCh' = <<>>
    /\ filePathsChClosed' = FALSE
    /\ resultsChClosed' = FALSE
    /\ numErrors' = 0
    /\ aggPc' = "idle"
    /\ aggRes' = 0
    /\ discPc' = "idle"
    /\ discErr' = "nil"
    /\ cwPc' = "idle"
    /\ cwErr' = "nil"
    /\ innerErr' = "nil"
    /\ wPc' = [w \in Workers |-> "idle"]
    /\ wFile' = [w \in Workers |-> 0]
    /\ outerErr' = "nil"
    /\ ctxCancelled' = FALSE
    /\ opened' = <<>>
    /\ verified' = <<>>
    /\ reported' = <<>>
    /\ wVerifier' = [w \in Workers |-> NoOptions]
    /\ content' = <<>>
    /\ fileErr' = <<>>
    /\ filePaths' = <<>>
    /\ UNCHANGED <<numWorkers, SkipPathRegexes, tree, vvars, mvars>>

SpecCallsInit == ImpiInit({1}, CallOptions, {FileAGo, FileBGo})

SpecCallsNext == Next \/ VerifyAgain

SpecCalls == SpecCallsInit /\ [][SpecCallsNext]_vars

(***************************************************************************)
(* The command, cmd/impi.                                                  *)
(***************************************************************************)
\* the -ignore pattern "[", which filepath.Match rejects
PatternBad == <<91>>

\* filepath.Match(*ignorePattern, "impi.go") returns an error: the patterns
\* at hand are literal text, which is well formed, and "[", which is not
filepathMatchFails(pattern) == pattern = PatternBad

\* getVerificationSchemeType: the scheme of the name, ok when there is one
getVerificationSchemeType(name) ==
    IF name = "stdLocalThirdParty"
    THEN [scheme |-> ImportGroupVerificationSchemeStdLocalThirdParty, ok |-> TRUE]
    ELSE IF name = "stdThirdPartyLocal"
    THEN [scheme |-> ImportGroupVerificationSchemeStdThirdPartyLocal, ok |-> TRUE]
    ELSE [scheme |-> 0, ok |-> FALSE]

\* what is under a root path: the number of files that fail verification,
\* and whether the run on it meets a fatal error once they are reported
RootPaths == [violating : 0..MaxViolations, fatal : BOOLEAN]

\* the command is started with flags and up to MaxRoots root paths
CliInit ==
    /\ PipelineOff
    /\ VerifierOff
    /\ cliPc = "setup"
    /\ schemeFlag \in {"", "stdLocalThirdParty", "stdThirdPartyLocal"}
    /\ ignorePattern \in {<<>>, FileAGo, PatternBad}
    /\ rootPaths \in UNION {[1..n -> RootPaths] : n \in 0..MaxRoots}
    /\ argIndex = 0
    /\ printed = [r \in 1..Len(rootPaths) |-> 0]
    /\ exitCode = 0

\* run returns err to main, which prints it and exits with code 1
RunReturnsError ==
    /\ cliPc' = "exit"
    /\ exitCode' = 1

\* run: the ignore pattern is malformed or the scheme name is unknown
RunSetupFails ==
    /\ cliPc = "setup"
    /\ filepathMatchFails(ignorePattern) \/ ~getVerificationSchemeType(schemeFlag).ok
    /\ RunReturnsError
    /\ UNCHANGED <<schemeFlag, ignorePattern, rootPaths, argIndex, printed, vvars, pvars>>

\* run: the flags are valid, the loop over the root paths starts
RunSetupDone ==
    /\ cliPc = "setup"
    /\ ~filepathMatchFails(ignorePattern)
    /\ getVerificationSchemeType(schemeFlag).ok
    /\ cliPc' = "loop"
    /\ UNCHANGED <<schemeFlag, ignorePattern, rootPaths, argIndex, printed, exitCode,
                   vvars, pvars>>

\* Verify of a new Impi on the root path returns an error: a fatal one, or
\* "Found N errors" when files failed
rootFails(root) == root.fatal \/ root.violating # 0

\* run: NewImpi and Verify on the root path at argIndex; the reporter prints
\* a line per violating file; an error of Verify ends run
RunVerifyRoot ==
    /\ cliPc = "loop"
    /\ argIndex < Len(rootPaths)
    /\ printed' = [printed EXCEPT ![argIndex + 1] = rootPaths[argIndex + 1].violating]
    /\ IF rootFails(rootPaths[argIndex + 1])
       THEN RunReturnsError /\ UNCHANGED argIndex
       ELSE argIndex' = argIndex + 1 /\ UNCHANGED <<cliPc, exitCode>>
    /\ UNCHANGED <<schemeFlag, ignorePattern, rootPaths, vvars, pvars>>

\* run: every root path was verified, run returns nil and main returns
RunReturnsNil ==
    /\ cliPc = "loop"
    /\ argIndex = Len(rootPaths)
    /\ cliPc' = "exit"
    /\ UNCHANGED <<schemeFlag, ignorePattern, rootPaths, argIndex, printed, exitCode,
                   vvars, pvars>>

CliNext == RunSetupFails \/ RunSetupDone \/ RunVerifyRoot \/ RunReturnsNil

SpecCli == CliInit /\ [][CliNext]_vars

(***************************************************************************)
(* The verifier run on its own.                                            *)
(***************************************************************************)
\* the declarations of at most maxRecords specs over the paths of pool
DeclsOf(pool, docs, maxRecords) ==
    UNION {[1..n -> [path : pool, blank : BOOLEAN, doc : docs]] : n \in 0..maxRecords}

VerifierInit(fileSet, optionsSet) ==
    /\ PipelineOff
    /\ CliOff
    /\ vPc = "ready"
    /\ vFile \in fileSet
    /\ vOptions \in optionsSet
    /\ vDecls = <<>>
    /\ vGroups = <<>>
    /\ vGrouped = FALSE
    /\ vErr = NoError

\* one call of verifier.verify
Verify ==
    /\ vPc = "ready"
    /\ LET r == verify(vFile, vOptions)
       IN  /\ vDecls' = r.decls
           /\ vGroups' = r.groups
           /\ vGrouped' = r.grouped
           /\ vErr' = r.err
    /\ vPc' = "done"
    /\ UNCHANGED <<vFile, vOptions, pvars, mvars>>

OneDeclFiles(pool, docs, maxRecords) ==
    {[decls |-> <<d>>, parses |-> TRUE, generated |-> FALSE] :
        d \in DeclsOf(pool, docs, maxRecords)}

BuiltinSchemes ==
    {ImportGroupVerificationSchemeStdLocalThirdParty,
     ImportGroupVerificationSchemeStdThirdPartyLocal}

\* SpecVerify: files of one declaration with no comments; two standard and two
\* dotted paths, which the prefixes make local or third party
SpecVerifyInit ==
    VerifierInit(OneDeclFiles({PathA, PathB, PathLA, PathLAB}, {FALSE}, MaxRecords),
                 [Scheme : BuiltinSchemes,
                  LocalPrefix : {PrefixNone, PrefixLA, PrefixLAB},
                  IgnoreGenerated : {FALSE}])

SpecVerify == SpecVerifyInit /\ [][Verify]_vars

\* SpecCount: longer declarations, so that more than three groups can hold
\* more than one import; one path of each category under the prefix
SpecCountInit ==
    VerifierInit(OneDeclFiles({PathA, PathLA, PathLB}, {FALSE}, MaxCountRecords),
                 [Scheme : BuiltinSchemes,
                  LocalPrefix : {PrefixLA},
                  IgnoreGenerated : {FALSE}])

SpecCount == SpecCountInit /\ [][Verify]_vars

\* SpecGroup: declarations whose imports may have a comment above them
SpecGroupInit ==
    VerifierInit(OneDeclFiles({PathA, PathLA}, BOOLEAN, MaxRecords),
                 [Scheme : BuiltinSchemes,
                  LocalPrefix : {PrefixLA},
                  IgnoreGenerated : {FALSE}])

SpecGroup == SpecGroupInit /\ [][Verify]_vars

\* SpecClassify: one import, of every path and local prefix over PathBytes
BytesUpTo(n) == UNION {[1..k -> PathBytes] : k \in 0..n}

SpecClassifyInit ==
    VerifierInit({[decls |-> << <<[path |-> p, blank |-> FALSE, doc |-> FALSE]>> >>,
                   parses |-> TRUE, generated |-> FALSE] :
                      p \in BytesUpTo(MaxPathLen) \ {<<>>}},
                 [Scheme : {ImportGroupVerificationSchemeStdLocalThirdParty},
                  LocalPrefix : BytesUpTo(MaxPathLen),
                  IgnoreGenerated : {FALSE}])

SpecClassify == SpecClassifyInit /\ [][Verify]_vars

\* an import declaration with the given paths on consecutive lines
DeclOf(paths) == [i \in 1..Len(paths) |-> [path |-> paths[i], blank |-> FALSE, doc |-> FALSE]]

\* the import declarations of the runs on whole files: import "C" alone, an
\* empty declaration, sorted and unsorted ordinary imports, "C" among ordinary
\* imports, and a standard import with a dotted one
DeclPool ==
    {DeclOf(<<PathC>>), DeclOf(<<>>), DeclOf(<<PathA, PathB>>), DeclOf(<<PathB, PathA>>),
     DeclOf(<<PathA, PathC>>), DeclOf(<<PathC, PathA>>), DeclOf(<<PathA, PathLA>>)}

AllSchemes ==
    {ImportGroupVerificationSchemeSingle, ImportGroupVerificationSchemeStdNonStd,
     ImportGroupVerificationSchemeStdLocalThirdParty,
     ImportGroupVerificationSchemeStdThirdPartyLocal}

\* SpecFile: files of up to MaxDecls declarations, that parse or not, with the
\* generated-code marker or not, under every scheme value and flag
SpecFileInit ==
    VerifierInit([decls : UNION {[1..n -> DeclPool] : n \in 0..MaxDecls},
                  parses : BOOLEAN, generated : BOOLEAN],
                 [Scheme : AllSchemes,
                  LocalPrefix : {PrefixNone, PrefixLA},
                  IgnoreGenerated : BOOLEAN])

SpecFile == SpecFileInit /\ [][Verify]_vars

\* the import declarations of the runs of groupImports: empty, one import,
\* and imports with an empty line or a comment line between or above them
GapDeclPool ==
    LET spec(blank, doc) == [path |-> PathA, blank |-> blank, doc |-> doc]
    IN  {<<>>,
         <<spec(FALSE, FALSE)>>,
         <<spec(FALSE, FALSE), spec(FALSE, FALSE)>>,
         <<spec(FALSE, FALSE), spec(TRUE, FALSE)>>,
         <<spec(FALSE, FALSE), spec(FALSE, TRUE)>>,
         <<spec(TRUE, FALSE), spec(FALSE, FALSE)>>,
         <<spec(FALSE, TRUE), spec(TRUE, TRUE)>>,
         <<spec(FALSE, FALSE), spec(TRUE, FALSE), spec(TRUE, FALSE)>>}

\* one call of verifier.groupImports, on the declarations parseImports
\* returns for the file
GroupImports ==
    /\ vPc = "ready"
    /\ LET importDecls == parseImports(vFile, vOptions.LocalPrefix)
       IN  /\ vDecls' = importDecls
           /\ vGroups' = groupImports(importDecls)
    /\ vGrouped' = TRUE
    /\ vErr' = NoError
    /\ vPc' = "done"
    /\ UNCHANGED <<vFile, vOptions, pvars, mvars>>

\* SpecDecls: groupImports on files of up to MaxDecls declarations
SpecDeclsInit ==
    VerifierInit([decls : UNION {[1..n -> GapDeclPool] : n \in 0..MaxDecls},
                  parses : {TRUE}, generated : {FALSE}],
                 [Scheme : {ImportGroupVerificationSchemeStdLocalThirdParty},
                  LocalPrefix : {PrefixNone},
                  IgnoreGenerated : {FALSE}])

SpecDecls == SpecDeclsInit /\ [][GroupImports]_vars


(***************************************************************************)
(* Properties of the pipeline.                                             *)
(***************************************************************************)
Returned == verifyPc = "returned"

FileIds == 1..Len(files)

Failing == {f \in FileIds : files[f] = "fail"}

\* no fatal error occurs in the run: the skip paths compile, discovery
\* succeeds and every file can be opened
NoFatalError ==
    /\ verifyResult.kind # "compile"
    /\ discErr # "disc"
    /\ \A f \in FileIds : files[f] # "noopen"

RECURSIVE SumTo(_, _)
SumTo(count, n) == IF n = 0 THEN 0 ELSE count[n] + SumTo(count, n - 1)

\* the number of Report calls made
ReportCalls == SumTo(reported, Len(files))

\* C1: with W >= 1 and no fatal error, no file is ever verified or reported
\* twice, and when Verify returns every file that passes the filters was
\* verified exactly once (a filtered one never), the reporter got exactly one
\* Report per failing file and none for any other, and Verify returned success
\* if no file failed and else "Found N errors", N the number of Report calls.
C1_EachFileOnceAndCount ==
    (numWorkers >= 1 /\ NoFatalError)
    => /\ \A f \in FileIds : verified[f] <= 1 /\ reported[f] <= 1
       /\ Returned =>
              /\ \A f \in FileIds :
                     /\ verified[f] = (IF files[f] = "skip" THEN 0 ELSE 1)
                     /\ opened[f] = verified[f]
                     /\ reported[f] = (IF files[f] = "fail" THEN 1 ELSE 0)
              /\ verifyResult = IF Failing = {} THEN [kind |-> "nil", n |-> 0]
                                ELSE [kind |-> "found", n |-> ReportCalls]
              /\ ReportCalls = Cardinality(Failing)

\* C1 witness: a run that returns "Found 2 errors" with a passing and a
\* filtered file beside the failing ones
C1_Witness ==
    /\ numWorkers >= 1 /\ NoFatalError /\ Returned
    /\ verifyResult = [kind |-> "found", n |-> 2]
    /\ ReportCalls = 2

AllStagesDone ==
    /\ aggPc = "done" /\ discPc = "done" /\ cwPc = "done"
    /\ \A w \in Workers : w <= numWorkers => wPc[w] = "done"

\* C8: with W >= 1, whatever the files, their outcomes and the outcome of
\* discovery, every run gets to the point where discovery, every worker, the
\* workers goroutine and the aggregator have returned and Verify has returned.
C8_VerifyReturns ==
    (numWorkers >= 1) => <>(Returned /\ (verifyResult.kind # "compile" => AllStagesDone))

\* C8 witness: Verify returned after discovery gave up a send on cancellation
C8_Witness ==
    /\ numWorkers >= 1 /\ Returned /\ AllStagesDone
    /\ discErr = "ctx"
    /\ files[Len(files)] = "found"

OpenFailed == \E f \in FileIds : files[f] = "noopen" /\ opened[f] > 0

\* C9: when some worker failed to open a file, Verify returns a fatal error,
\* the file-open error or the error of discovery (this one only if discovery
\* failed): not success, not "Found N errors", not the cancellation error.
C9_OpenFailureIsFatal ==
    (Returned /\ OpenFailed)
    => /\ verifyResult.kind \in {"open", "disc"}
       /\ verifyResult.kind = "disc" => discErr = "disc"
       /\ verifyResult.kind = outerErr

\* C9 witness: verification failures were reported, a file could not be opened
\* and discovery returned the cancellation error
C9_Witness ==
    /\ Returned /\ OpenFailed
    /\ numErrors > 0
    /\ discErr = "ctx"
    /\ verifyResult.kind = "open"

\* C10 as stated: once a worker has failed to open a file the signal is raised
\* without waiting for the other workers, so a worker that takes another path
\* from the queue after the failure does so with the signal already raised.
C10_CancelOnFirstOpenFailure ==
    [][(innerErr = "open" /\ \E w \in Workers : wPc[w] = "recv" /\ wPc'[w] = "work")
       => ctxCancelled]_vars

\* the files that pass the filters
Dispatched == {f \in FileIds : files[f] # "skip"}

\* the (file, message) pairs the reporter got
ReportedPairs == {<<f, fileErr[f]>> : f \in {g \in FileIds : reported[g] >= 1}}

\* the error of a file verified on its own: verify of its content and the
\* shared options
SequentialErr(f) == verify(FileContent(content[f]), VerifierView(verifyOptions)).err

\* the pairs that verifying the files one after another reports
SequentialPairs ==
    {<<f, SequentialErr(f)>> : f \in {g \in Dispatched : SequentialErr(g) # NoError}}

\* C11: with W >= 1 and no fatal error, when Verify returns every file that
\* passes the filters has been read, and the set of (file, message) pairs the
\* reporter got is the set that verifying the same contents one by one with
\* the shared options gives, whichever worker verified which file and in
\* whatever order.
C11_SameAsSequential ==
    (Returned /\ NoFatalError /\ numWorkers >= 1)
    => /\ \A f \in Dispatched : content[f] \in PipelineFiles
       /\ ReportedPairs = SequentialPairs

\* C11 witness: fewer workers than files, so that some verifier instance
\* verified more than one file; two files reported and one that verifies
C11_Witness ==
    /\ Returned /\ NoFatalError
    /\ numWorkers >= 1 /\ numWorkers < Cardinality(Dispatched)
    /\ Cardinality(ReportedPairs) >= 2
    /\ \E f \in Dispatched : files[f] = "pass"

\* no stage of the pipeline was started
NoStageStarted ==
    /\ aggPc = "idle" /\ discPc = "idle" /\ cwPc = "idle"
    /\ \A w \in Workers : wPc[w] = "idle"

\* C20: when Verify returns the compile error of a skip path, it has returned
\* without starting any stage: no file was discovered, opened or verified,
\* nothing is in the channels and the reporter was never called.
C20_InvalidSkipPathIsSetupError ==
    (verifyResult.kind = "compile")
    => /\ Returned /\ NoStageStarted
       /\ files = <<>> /\ filePathsCh = <<>>
       /\ opened = <<>> /\ verified = <<>> /\ reported = <<>>
       /\ numErrors = 0 /\ ReportCalls = 0

\* C20 witness: Verify returned the compile error on an Impi with workers
C20_Witness ==
    /\ verifyResult.kind = "compile"
    /\ Returned
    /\ numWorkers >= 1

\* C21 as stated: when the scheme of the call has no implementation the run
\* is aborted before any file is processed: no file is opened or verified and
\* no VerificationError is reported.
C21_UnsupportedSchemeIsSetupError ==
    (verifyPc # "off" /\ ~getVerificationScheme(verifyOptions.Scheme).supported)
    => /\ \A f \in FileIds : opened[f] = 0 /\ verified[f] = 0 /\ reported[f] = 0
       /\ numErrors = 0

\* filepath.Match(pattern, name) for a pattern of literal text
filepathMatch(pattern, name) == pattern = name

\* the file reached the select that puts it on the path queue
ReachedSelect(f) == files[f] # "skip"

\* C22 as stated: a discovered file gets to the path queue iff its path ends
\* in ".go", it is not a "_test.go" file with the skip-tests flag set, no
\* configured skip path matches it and its base name does not match the
\* ignore pattern; a file that is filtered out is never opened, verified or
\* reported.
C22_FilteredIffExcluded ==
    (verifyPc # "off")
    => \A f \in FileIds :
           /\ ReachedSelect(f)
                  <=> /\ StringsHasSuffix(filePaths[f], SuffixGo)
                      /\ ~(StringsHasSuffix(filePaths[f], SuffixTestGo)
                           /\ verifyOptions.SkipTests)
                      /\ \A k \in 1..Len(verifyOptions.SkipPaths) :
                             ~StringsContains(filePaths[f], verifyOptions.SkipPaths[k])
                      /\ ~filepathMatch(verifyOptions.IgnorePattern, filePaths[f])
           /\ ~ReachedSelect(f) => opened[f] = 0 /\ verified[f] = 0 /\ reported[f] = 0

\* C24 as stated: once the cancellation signal is raised, no step puts a
\* further path on the path queue.
C24_NoSendAfterCancel ==
    [][ctxCancelled => Len(filePathsCh') <= Len(filePathsCh)]_vars

\* the workers that hold a file: verifying it or handing over its result
InProgress == {w \in Workers : wPc[w] \in {"work", "send"}}

\* C25: at most numWorkers verifications are in progress and the path queue
\* holds at most numWorkers paths; a path is added only while the queue holds
\* fewer than numWorkers, and a worker leaves its send only by the results
\* goroutine taking its result.
C25_BoundedPoolAndQueue ==
    /\ [](/\ Cardinality(InProgress) <= numWorkers
          /\ Len(filePathsCh) <= numWorkers)
    /\ [][/\ Len(filePathsCh') > Len(filePathsCh) => Len(filePathsCh) < numWorkers
          /\ \A w \in Workers :
                 (wPc[w] = "send" /\ wPc'[w] # "send")
                 => (aggPc = "recv" /\ aggPc' = "report" /\ aggRes' = wFile[w])]_vars

\* C25: the path queue is full, discovery waits with one more path, and a
\* worker is verifying
C25_Witness ==
    /\ numWorkers >= 1
    /\ Len(filePathsCh) = numWorkers
    /\ discPc = "send"
    /\ \E w \in Workers : wPc[w] = "work"

\* C26: no stage sends on a closed channel and no channel is closed twice:
\* filePathsCh is closed once, by populatePathsChan when it returns, after
\* its last send; resultsCh is closed once, after every worker returned; and
\* every result a worker sent is reported when Verify returns.
C26_NoSendOnClosedNoDoubleClose ==
    /\ [](/\ filePathsChClosed => discPc \in {"exit", "done"}
          /\ resultsChClosed => /\ cwPc \in {"exit", "done"}
                                /\ \A w \in Workers : wPc[w] \in {"idle", "done"}
          /\ (Returned /\ verifyResult.kind # "compile")
             => /\ filePathsChClosed /\ resultsChClosed
                /\ \A f \in FileIds : files[f] = "fail" => reported[f] = 1)
    /\ [][/\ Len(filePathsCh') > Len(filePathsCh) => ~filePathsChClosed
          /\ (discPc # "exit" /\ discPc' = "exit")
             => (~filePathsChClosed /\ filePathsChClosed')
          /\ (cwPc # "exit" /\ cwPc' = "exit")
             => (~resultsChClosed /\ resultsChClosed')
          /\ filePathsChClosed => filePathsChClosed'
          /\ resultsChClosed => resultsChClosed'
          /\ aggRes' # aggRes => ~resultsChClosed]_vars

\* C26: Verify returned from a run in which a worker failed to open a file
\* and another file's result was sent and reported
C26_Witness ==
    /\ Returned
    /\ resultsChClosed /\ filePathsChClosed
    /\ \E f \in FileIds : files[f] = "noopen"
    /\ \E f \in FileIds : files[f] = "fail" /\ reported[f] = 1

\* the skip-path regexes of this call's own options
OwnRegexes == compileSkipPaths(verifyOptions.SkipPaths, <<>>).regexes

\* C27 as stated: whatever calls were made before on the Impi, a file is
\* filtered out in a call iff this call's own options exclude it.
C27_CallsAreIndependent ==
    \A f \in FileIds :
        files[f] = "skip" <=> ~passesFilters(filePaths[f], verifyOptions, OwnRegexes)

\* C28 as stated: with numWorkers = 0, once discovery has a file that passes
\* the filters to send, Verify still returns.
C28_PoolSizeZeroReturns ==
    (numWorkers = 0 /\ discPc = "send") ~> Returned

(***************************************************************************)
(* Properties of the command.                                              *)
(***************************************************************************)
SetupValid == ~filepathMatchFails(ignorePattern) /\ getVerificationSchemeType(schemeFlag).ok

\* C23 as stated: when the command ends after a valid setup and no fatal
\* error, every violating file under every root path was printed, and the
\* exit code is 0 iff no file under any root path fails.
C23_EveryRootIsReported ==
    (/\ cliPc = "exit" /\ SetupValid
     /\ \A r \in 1..Len(rootPaths) : ~rootPaths[r].fatal)
    => /\ \A r \in 1..Len(rootPaths) : printed[r] = rootPaths[r].violating
       /\ exitCode = 0 <=> \A r \in 1..Len(rootPaths) : rootPaths[r].violating = 0

(***************************************************************************)
(* Properties of the verifier.                                             *)
(***************************************************************************)
VerifyDone == vPc = "done"

BuiltinScheme == vOptions.Scheme \in BuiltinSchemes

\* the import specs of the one declaration of the source file
SourceSpecs == vFile.decls[1]

PathsOf(g) == [i \in 1..Len(vGroups[g]) |-> vGroups[g][i].path]

TypesOf(g) == {vGroups[g][i].classifiedType : i \in 1..Len(vGroups[g])}

Homogeneous(g) == Cardinality(TypesOf(g)) = 1

\* the category of each group, in source order
GroupCategories == [g \in 1..Len(vGroups) |-> vGroups[g][1].classifiedType]

CategoryName(t) ==
    CASE t = importTypeStd -> "Std"
      [] t = importTypeLocal -> "Local"
      [] t = importTypeThirdParty -> "Third party"
      [] t = importTypeLocalOrThirdParty -> "Local or third party"
      [] OTHER -> "Unknown"

\* cats is an order-preserving subsequence, with no repetition, of base
IsOrderedSubsequence(cats, base) ==
    \E pos \in [1..Len(cats) -> 1..Len(base)] :
        /\ \A i \in 1..Len(cats) : base[pos[i]] = cats[i]
        /\ \A i \in 1..Len(cats), j \in 1..Len(cats) : i < j => pos[i] < pos[j]

SchemeBaseOrder ==
    IF vOptions.Scheme = ImportGroupVerificationSchemeStdLocalThirdParty
    THEN <<importTypeStd, importTypeLocal, importTypeThirdParty>>
    ELSE <<importTypeStd, importTypeThirdParty, importTypeLocal>>

\* C2: under a built-in scheme, 1 to 3 type-homogeneous groups pass the group
\* order check (verify goes on to the sort check) iff their categories are an
\* order-preserving subsequence without repetition of the scheme's base order;
\* otherwise verify fails with the group-order error that lists the observed
\* category names in source order.
C2_GroupOrderIffSubsequence ==
    (/\ VerifyDone /\ vGrouped /\ BuiltinScheme
     /\ Len(vGroups) \in 1..3
     /\ \A g \in 1..Len(vGroups) : Homogeneous(g))
    => IF IsOrderedSubsequence(GroupCategories, SchemeBaseOrder)
       THEN vErr.kind \in {"nil", "sort"}
       ELSE /\ vErr.kind = "order"
            /\ vErr.names = [g \in 1..Len(vGroups) |-> CategoryName(GroupCategories[g])]

\* C2 witness: std, local, third party groups under std -> thirdParty -> local
C2_Witness ==
    /\ VerifyDone /\ vGrouped
    /\ vOptions.Scheme = ImportGroupVerificationSchemeStdThirdPartyLocal
    /\ GroupCategories = <<importTypeStd, importTypeLocal, importTypeThirdParty>>
    /\ \A g \in 1..Len(vGroups) : Homogeneous(g)
    /\ vErr.kind = "order"
    /\ vErr.names = <<"Std", "Local", "Third party">>

\* xs is in ascending byte-wise order
Ascending(xs) == \A i \in 1..(Len(xs) - 1) : ~StringLess(xs[i + 1], xs[i])

Occurrences(x, xs) == Cardinality({i \in 1..Len(xs) : xs[i] = x})

\* ys is xs sorted
IsSortedArrangement(ys, xs) ==
    /\ Len(ys) = Len(xs)
    /\ Ascending(ys)
    /\ \A i \in 1..Len(xs) : Occurrences(xs[i], ys) = Occurrences(xs[i], xs)

ReachedSortCheck == VerifyDone /\ vGrouped /\ vErr.kind \in {"nil", "sort"}

UnsortedGroups == {g \in 1..Len(vGroups) : ~Ascending(PathsOf(g))}

\* C3: for a file that reaches the sort check, the sort error has one entry
\* per group that is not in ascending order and no other entry, in source
\* order, each with the group's 0-based index, its paths as observed and the
\* same paths sorted; there is no error when every group is sorted.
C3_SortErrorListsExactlyUnsorted ==
    ReachedSortCheck
    => IF UnsortedGroups = {} THEN vErr = NoError
       ELSE /\ vErr.kind = "sort"
            /\ {vErr.entries[k].index + 1 : k \in 1..Len(vErr.entries)} = UnsortedGroups
            /\ \A k \in 1..(Len(vErr.entries) - 1) :
                   vErr.entries[k].index < vErr.entries[k + 1].index
            /\ \A k \in 1..Len(vErr.entries) :
                   /\ vErr.entries[k].got = PathsOf(vErr.entries[k].index + 1)
                   /\ IsSortedArrangement(vErr.entries[k].expected, vErr.entries[k].got)

\* C3 witness: two unsorted groups in one error
C3_Witness ==
    /\ ReachedSortCheck
    /\ Cardinality(UnsortedGroups) = 2
    /\ Len(vErr.entries) = 2
    /\ vErr.entries[1].expected # vErr.entries[1].got

\* the number of runs of imports that empty lines separate
BlankSeparatedRuns ==
    IF Len(SourceSpecs) = 0 THEN 0
    ELSE 1 + Cardinality({i \in 2..Len(SourceSpecs) : SourceSpecs[i].blank})

\* C4: under a built-in scheme, a file whose one declaration forms N > 3 groups
\* fails with "Expected no more than 3 groups, got N", N the number of groups
\* the grouper found; a file with at most 3 groups never gets that error.
C4_TooManyGroups ==
    (VerifyDone /\ vGrouped /\ BuiltinScheme)
    => /\ Len(vGroups) = BlankSeparatedRuns
       /\ Len(vGroups) > 3 => vErr = CountError(Len(vGroups))
       /\ Len(vGroups) <= 3 => vErr.kind # "count"

\* C4 witness: five groups
C4_Witness ==
    /\ VerifyDone /\ vGrouped /\ BuiltinScheme
    /\ Len(vGroups) = 5
    /\ vErr.kind = "count" /\ vErr.n = 5

MixedGroups == {g \in 1..Len(vGroups) : ~Homogeneous(g)}

FirstMixedGroup == CHOOSE g \in MixedGroups : \A h \in MixedGroups : g <= h

\* the first import of group g whose category differs from that of its first
FirstDiffering(g) ==
    LET bad == {i \in 1..Len(vGroups[g]) :
                   vGroups[g][i].classifiedType # vGroups[g][1].classifiedType}
    IN  CHOOSE i \in bad : \A j \in bad : i <= j

\* the mixed-group error the claim describes
ExpectedMixedError ==
    /\ vErr.kind = "mixed"
    /\ vErr.group = FirstMixedGroup - 1
    /\ vErr.first = vGroups[FirstMixedGroup][1].path
    /\ vErr.other = vGroups[FirstMixedGroup][FirstDiffering(FirstMixedGroup)].path

\* C5: under a built-in scheme, whenever some group is mixed verify fails with
\* the mixed-group error naming the first mixed group, its first import and
\* its first import of another category; with no mixed group that error is
\* never raised.
C5_MixedGroupError ==
    (VerifyDone /\ vGrouped /\ BuiltinScheme)
    => IF MixedGroups # {} THEN ExpectedMixedError ELSE vErr.kind # "mixed"

\* the concatenation of the groups
RECURSIVE Flatten(_)
Flatten(groups) ==
    IF groups = <<>> THEN <<>> ELSE Head(groups) \o Flatten(Tail(groups))

\* the index, among the records of the declaration, of the first of group g
RECURSIVE GroupStart(_)
GroupStart(g) == IF g = 1 THEN 1 ELSE GroupStart(g - 1) + Len(vGroups[g - 1])

GroupStarts == {GroupStart(g) : g \in 1..Len(vGroups)}

ParsedInfos == vDecls[1].importInfos

\* C6: the groups are the records of the declaration in source order, cut
\* exactly before every record whose start line (that of the comment above it
\* if there is one, else that of its path) is not the end line of the record
\* before it plus one; so a comment directly above an import does not cut and
\* an empty line always does.
C6_GroupsCutAtLineGaps ==
    (VerifyDone /\ vGrouped)
    => /\ Flatten(vGroups) = ParsedInfos
       /\ \A g \in 1..Len(vGroups) : Len(vGroups[g]) > 0
       /\ \A i \in 1..Len(ParsedInfos) :
              /\ ParsedInfos[i].path = SourceSpecs[i].path
              /\ ParsedInfos[i].lineNumStart =
                     ParsedInfos[i].lineNumImport - (IF SourceSpecs[i].doc THEN 1 ELSE 0)
       /\ GroupStarts =
              {i \in 1..Len(ParsedInfos) :
                  i = 1 \/ ParsedInfos[i].lineNumStart # ParsedInfos[i - 1].lineNumEnd + 1}
       /\ GroupStarts = {i \in 1..Len(SourceSpecs) : i = 1 \/ SourceSpecs[i].blank}

\* C6 witness: a commented import inside a group, and an empty line that cuts
C6_Witness ==
    /\ VerifyDone /\ vGrouped
    /\ Len(vGroups) = 2
    /\ Len(vGroups[1]) = 2
    /\ SourceSpecs[2].doc /\ ~SourceSpecs[2].blank
    /\ SourceSpecs[3].blank /\ SourceSpecs[3].doc

HasDot(path) == \E i \in 1..Len(path) : path[i] = 46

StartsWith(path, prefix) ==
    \A i \in 1..Len(prefix) : i <= Len(path) /\ path[i] = prefix[i]

\* C7: every classified import is std when its path has no dot; with a dot it
\* is local iff a non-empty prefix is set and the path starts with it, third
\* party iff a non-empty prefix is set and the path does not start with it,
\* and localOrThirdParty iff no prefix is set; it is never Unknown.
C7_Classification ==
    (VerifyDone /\ vGrouped)
    => \A i \in 1..Len(ParsedInfos) :
           LET path == ParsedInfos[i].path
               type == ParsedInfos[i].classifiedType
               prefix == vOptions.LocalPrefix
           IN  /\ type # importTypeUnknown
               /\ ~HasDot(path) => type = importTypeStd
               /\ HasDot(path) =>
                      /\ type = importTypeLocal
                             <=> (prefix # <<>> /\ StartsWith(path, prefix))
                      /\ type = importTypeThirdParty
                             <=> (prefix # <<>> /\ ~StartsWith(path, prefix))
                      /\ type = importTypeLocalOrThirdParty <=> prefix = <<>>

\* C7 witness: a dotted path that is a proper prefix of the local prefix
C7_Witness ==
    /\ VerifyDone /\ vGrouped
    /\ HasDot(ParsedInfos[1].path)
    /\ Len(ParsedInfos[1].path) < Len(vOptions.LocalPrefix)
    /\ StartsWith(vOptions.LocalPrefix, ParsedInfos[1].path)
    /\ ParsedInfos[1].classifiedType = importTypeThirdParty

\* the groups the error of verify names as not sorted
GroupsNamedUnsorted == {vErr.entries[i].index + 1 : i \in 1..Len(vErr.entries)}

\* C12 as stated: the error of a file aggregates the violations of the count,
\* mixed-type, group-order and sort checks, so whatever the earlier checks
\* found, every group that is not in ascending order is named in the error.
C12_ErrorAggregatesSortCheck ==
    (VerifyDone /\ vGrouped /\ BuiltinScheme)
    => UnsortedGroups \subseteq GroupsNamedUnsorted

\* xs is in strict ascending byte-wise order
StrictlyAscending(xs) == \A i \in 1..(Len(xs) - 1) : StringLess(xs[i], xs[i + 1])

\* C13 as stated: in a file that reaches the sort check, every group that is
\* not in strict ascending order, one with the same path twice in adjacent
\* positions included, is reported as not sorted.
C13_SortCheckIsStrict ==
    ReachedSortCheck
    => {g \in 1..Len(vGroups) : ~StrictlyAscending(PathsOf(g))} \subseteq GroupsNamedUnsorted

\* every path of group g has a dot
Dotted(g) == \A i \in 1..Len(vGroups[g]) : HasDot(vGroups[g][i].path)

\* no path of group g has a dot
Dotless(g) == \A i \in 1..Len(vGroups[g]) : ~HasDot(vGroups[g][i].path)

\* C14 as stated: with no local prefix, a file made of one sorted group of
\* dotted imports, or of a sorted std group followed by a sorted group of
\* dotted imports, verifies successfully under either built-in scheme.
C14_AmbiguousCategoryTolerated ==
    (/\ VerifyDone /\ vGrouped /\ BuiltinScheme
     /\ vOptions.LocalPrefix = <<>>
     /\ \A g \in 1..Len(vGroups) : StrictlyAscending(PathsOf(g))
     /\ \/ Len(vGroups) = 1 /\ Dotted(1)
        \/ Len(vGroups) = 2 /\ Dotless(1) /\ Dotted(2))
    => vErr = NoError

\* C15 as stated: under a built-in scheme, a file whose single import
\* declaration holds no import (zero groups) passes the group-order check and
\* verifies successfully.
C15_EmptyOrderingAllowed ==
    (/\ VerifyDone /\ vGrouped /\ BuiltinScheme
     /\ Len(vFile.decls) = 1 /\ Len(vFile.decls[1]) = 0)
    => Len(vGroups) = 0 /\ vErr = NoError

\* verify got to look at the imports of the file
Examined ==
    /\ VerifyDone /\ vFile.parses
    /\ ~(vOptions.IgnoreGenerated /\ vFile.generated)

\* a declaration of the source that consists solely of "C"
IsCOnly(d) == Len(d) > 0 /\ \A i \in 1..Len(d) : d[i].path = PathC

\* the declarations of the file that do not consist solely of "C"
Ordinary == SelectSeq(vFile.decls, LAMBDA d : ~IsCOnly(d))

\* the paths of a parsed declaration
DeclPaths(decl) == [i \in 1..Len(decl.importInfos) |-> decl.importInfos[i].path]

\* C16: the declarations made of "C" alone are excluded wherever they stand,
\* so a file with only such declarations verifies and any file gets the result
\* of the same file without them; every other declaration is kept with all
\* its imports, "C" included, which is classified std and, when verify gets
\* to group, stands in the groups like any other import.
C16_COnlyDeclarationExcluded ==
    Examined
    => /\ Len(Ordinary) = 0 => vErr = NoError
       /\ vErr = verify([vFile EXCEPT !.decls = Ordinary], vOptions).err
       /\ Len(vDecls) = Len(Ordinary)
       /\ \A k \in 1..Len(vDecls) :
              /\ DeclPaths(vDecls[k]) = [i \in 1..Len(Ordinary[k]) |-> Ordinary[k][i].path]
              /\ \A i \in 1..Len(vDecls[k].importInfos) :
                     vDecls[k].importInfos[i].path = PathC
                     => vDecls[k].importInfos[i].classifiedType = importTypeStd
       /\ vGrouped =>
              LET flat == Flatten(vGroups)
              IN  [i \in 1..Len(flat) |-> flat[i].path] = DeclPaths(vDecls[1])

\* C16 witness: import "C" alone, then a declaration with "C" after "a": the
\* first is excluded, the second is reported as not sorted, "C" before "a"
C16_Witness ==
    /\ Examined /\ BuiltinScheme
    /\ vFile.decls = <<DeclOf(<<PathC>>), DeclOf(<<PathA, PathC>>)>>
    /\ vErr = SortError(<<[index |-> 0, got |-> <<PathA, PathC>>,
                          expected |-> <<PathC, PathA>>]>>)

\* C17: with N the number of declarations left once those made of "C" alone
\* are excluded, N > 1 gives the multiple-declarations error stating N,
\* before grouping and whatever the scheme value; N = 1 never gives it.
C17_MultipleDeclarations ==
    Examined
    => /\ Len(Ordinary) > 1 => vErr = MultipleError(Len(Ordinary)) /\ ~vGrouped
       /\ Len(Ordinary) <= 1 => vErr.kind # "multiple"

\* C17 witness: three declarations of which one is import "C" alone, under a
\* scheme value that has no scheme: the error states 2
C17_Witness ==
    /\ Examined
    /\ Len(vFile.decls) = 3 /\ Len(Ordinary) = 2
    /\ ~BuiltinScheme
    /\ vErr = MultipleError(2)

\* C18: with the flag set and the marker in the file verify returns success
\* whatever the file holds; in every other case the result is the one of the
\* same file with neither flag nor marker.
C18_IgnoreGeneratedOnlyExemptsGenerated ==
    VerifyDone
    => IF vOptions.IgnoreGenerated /\ vFile.generated
       THEN vErr = NoError
       ELSE /\ vErr = verify([vFile EXCEPT !.generated = FALSE],
                             [vOptions EXCEPT !.IgnoreGenerated = FALSE]).err
            /\ ~vFile.parses => vErr = ParseError

\* C18 witness: the flag is set, the file has no marker and an unsorted
\* declaration: it was read again and the sort error is returned
C18_Witness ==
    /\ VerifyDone
    /\ vOptions.IgnoreGenerated /\ ~vFile.generated
    /\ vFile.decls = <<DeclOf(<<PathB, PathA>>)>>
    /\ vErr.kind = "sort"

\* C19: a file that parses and has no import declaration verifies
\* successfully under every scheme value and local prefix.
C19_NoImportsVerifies ==
    (VerifyDone /\ vFile.parses /\ Len(vFile.decls) = 0)
    => vErr = NoError /\ ~vGrouped

\* C19 witness: no import declaration, a scheme value that has no scheme and
\* a local prefix
C19_Witness ==
    /\ VerifyDone /\ vFile.parses /\ Len(vFile.decls) = 0
    /\ vOptions.Scheme = ImportGroupVerificationSchemeSingle
    /\ vOptions.LocalPrefix = PrefixLA
    /\ ~vOptions.IgnoreGenerated
    /\ vErr = NoError


DeclInfos == [d \in 1..Len(vDecls) |-> vDecls[d].importInfos]

\* the declaration that holds the record
DeclHolding(info) ==
    {d \in 1..Len(vDecls) : \E i \in 1..Len(DeclInfos[d]) : DeclInfos[d][i] = info}

\* C29: the groups groupImports returns are all non-empty, each lies within
\* one declaration, and their concatenation is the sequence of the records of
\* the declarations, so the first record of every group exists.
C29_GroupsPartitionRecords ==
    (VerifyDone /\ vGrouped)
    => /\ \A g \in 1..Len(vGroups) :
              /\ Len(vGroups[g]) > 0
              /\ \E d \in 1..Len(vDecls) :
                     \A i \in 1..Len(vGroups[g]) : DeclHolding(vGroups[g][i]) = {d}
       /\ Flatten(vGroups) = Flatten(DeclInfos)

\* C29 witness: several declarations, one of them cut into several groups and
\* one of them empty
C29_Witness ==
    /\ VerifyDone /\ vGrouped
    /\ Len(vDecls) >= 2
    /\ \E d \in 1..Len(vDecls) : DeclInfos[d] = <<>>
    /\ Len(vGroups) > Len(vDecls)

====
